---- MODULE Spec2Model ----
(***************************************************************************)
(* SpotyPod2 (spotypod.py): main -> SpotyPod.process_playlist ->           *)
(* read_exportify_csv, download_playlist, generate_m3u_playlist.           *)
(* Strings are sequences of one-character strings, so that lower() and     *)
(* the substring test "a in b" are computed as Python computes them.       *)
(***************************************************************************)
EXTENDS Integers, Sequences, FiniteSets, TLC

\* ------------------------------------------------------------------ bounds
MaxRows == 2
MaxFiles == 2

\* ----------------------------------------------------------------- strings
Empty == << >>

LowerMap ==
  [A |-> "a", B |-> "b", C |-> "c", D |-> "d", E |-> "e", F |-> "f", G |-> "g",
   H |-> "h", I |-> "i", J |-> "j", K |-> "k", L |-> "l", M |-> "m", N |-> "n",
   O |-> "o", P |-> "p", Q |-> "q", R |-> "r", S |-> "s", T |-> "t", U |-> "u",
   V |-> "v", W |-> "w", X |-> "x", Y |-> "y", Z |-> "z"]

\* str.lower()
Lower(s) ==
  [n \in 1..Len(s) |-> IF s[n] \in DOMAIN LowerMap THEN LowerMap[s[n]] ELSE s[n]]

\* the Python test  a in b  on strings
In(a, b) ==
  \E p \in {<<a, b>>} :
    \E n \in 0..(Len(p[2]) - Len(p[1])) : SubSeq(p[2], n + 1, n + Len(p[1])) = p[1]

\* positions of "." in a file name after its first character
DotPositions(name) == {n \in 2..Len(name) : name[n] = "."}

\* Path.stem: the file name without its last suffix
Stem(name) ==
  IF DotPositions(name) = {} THEN name
  ELSE SubSeq(name, 1,
         (CHOOSE n \in DotPositions(name) : \A m \in DotPositions(name) : m <= n) - 1)

\* ------------------------------------------------------------ input pools
\* rows an Exportify CSV may hold: (Track Name, Artist Name(s), Album Name)
RowYesterday ==
  [track_name |-> <<"Y", "e", "s", "t", "e", "r", "d", "a", "y">>,
   artist |-> <<"T", "h", "e", " ", "B", "e", "a", "t", "l", "e", "s">>,
   album |-> <<"H", "e", "l", "p", "!">>]

RowHelp ==
  [track_name |-> <<"H", "e", "l", "p">>,
   artist |-> <<"B", "e", "a", "t", "l", "e", "s">>,
   album |-> <<"H", "e", "l", "p", "!">>]

RowHeyJude ==
  [track_name |-> <<"H", "e", "y", " ", "J", "u", "d", "e">>,
   artist |-> <<"W", "i", "n", "g", "s">>,
   album |-> Empty]

\* a row without artist: dropped by read_exportify_csv
RowNoArtist ==
  [track_name |-> <<"L", "e", "t", " ", "I", "t", " ", "B", "e">>,
   artist |-> Empty,
   album |-> Empty]

RowPool == {RowYesterday, RowHelp, RowHeyJude, RowNoArtist}

\* files that may lie in the playlist directory: name, ID3 tags as stored,
\* and whether EasyID3 can read the file
FileBeatlesYesterday ==
  [name |-> <<"B", "e", "a", "t", "l", "e", "s", " ", "-", " ",
              "Y", "e", "s", "t", "e", "r", "d", "a", "y", ".", "m", "p", "3">>,
   title |-> Empty, artist |-> Empty, album |-> Empty, readable |-> TRUE]

FileTagged ==
  [name |-> <<"a", ".", "m", "p", "3">>,
   title |-> <<"Y", "E", "S", "T", "E", "R", "D", "A", "Y", " ",
               "(", "R", "e", "m", "a", "s", "t", "e", "r", "e", "d", ")">>,
   artist |-> Empty,
   album |-> <<"H", "e", "l", "p", "!">>, readable |-> TRUE]

FileHelp ==
  [name |-> <<"T", "h", "e", " ", "B", "e", "a", "t", "l", "e", "s", " ", "-", " ",
              "H", "e", "l", "p", ".", "m", "p", "3">>,
   title |-> <<"H", "E", "L", "P">>,
   artist |-> <<"W", "i", "n", "g", "s">>,
   album |-> Empty, readable |-> TRUE]

\* no ID3 header: EasyID3 raises ID3NoHeaderError
FileUnreadable ==
  [name |-> <<"b", ".", "m", "p", "3">>,
   title |-> <<"H", "e", "l", "p">>,
   artist |-> <<"B", "e", "a", "t", "l", "e", "s">>,
   album |-> Empty, readable |-> FALSE]

\* not an mp3: never listed by glob("*.mp3")
FileCover ==
  [name |-> <<"c", "o", "v", "e", "r", ".", "j", "p", "g">>,
   title |-> Empty, artist |-> Empty, album |-> Empty, readable |-> FALSE]

FilePool == {FileBeatlesYesterday, FileTagged, FileHelp, FileUnreadable, FileCover}

\* sequences over S of length at most n
SeqsUpTo(S, n) == UNION {[1..m -> S] : m \in 0..n}

\* the orders in which a set of files can be enumerated
Orders(S) ==
  {q \in [1..Cardinality(S) -> S] : \A a, b \in 1..Cardinality(S) : a # b => q[a] # q[b]}

\* the absolute path of the playlist directory (cwd / output_dir / playlist_name)
PlaylistDirAbs == <<"/", "m", "/", "o", "u", "t", "/", "p", "l", "/">>

Mp3Suffix == <<".", "m", "p", "3">>

HeaderLine == <<"#", "E", "X", "T", "M", "3", "U">>

ExtInfPrefix == <<"#", "E", "X", "T", "I", "N", "F", ":", "-", "1", ",">>

Dash == <<" ", "-", " ">>

\* ------------------------------------------------------------------ state
VARIABLES
  pc,               \* position of main / process_playlist
  csv_exists,       \* os.path.exists(args.csv_file)
  rows,             \* the rows of the CSV file
  download,         \* not args.no_download
  dir_exists,       \* playlist_dir.exists()
  disk,             \* the files lying in playlist_dir
  spotdl,           \* outcome of the subprocess.run of spotdl
  playlist_items,   \* list of PlaylistItem
  downloaded_files, \* list(playlist_dir.glob("*.mp3"))
  i,                \* index of item in playlist_items (outer loop)
  k,                \* index of file_path in downloaded_files (inner loop)
  matched_file,     \* index of the matched file, 0 for None
  metadata,         \* local metadata
  title_match,      \* local title_match
  artist_match,     \* local artist_match
  filename_match,   \* local filename_match
  m3u_exists,       \* the .m3u file exists
  m3u,              \* lines written to the .m3u file
  emitted,          \* for each #EXTINF/path pair written: its item and file index
  log,              \* diagnostics printed
  raised,           \* exception propagating out of process_playlist
  exit_code         \* return value of main, -1 while main runs

vars ==
  <<pc, csv_exists, rows, download, dir_exists, disk, spotdl, playlist_items,
    downloaded_files, i, k, matched_file, metadata, title_match, artist_match,
    filename_match, m3u_exists, m3u, emitted, log, raised, exit_code>>

NoMetadata == [title |-> Empty, artist |-> Empty, album |-> Empty, raised |-> FALSE]

\* ------------------------------------------------------------ pure parts
\* a CSV row becomes a PlaylistItem when track name and artist are non-empty
KeepRow(row) == row.track_name # Empty /\ row.artist # Empty

ReadRows(rs) == SelectSeq(rs, KeepRow)

\* the names glob("*.mp3") lists
IsMp3(f) ==
  /\ Len(f.name) >= Len(Mp3Suffix)
  /\ SubSeq(f.name, Len(f.name) - Len(Mp3Suffix) + 1, Len(f.name)) = Mp3Suffix

\* get_file_metadata without its except clause: the error reaches the caller
GetFileMetadata_Propagates(f) ==
  [title |-> f.title, artist |-> f.artist, album |-> f.album, raised |-> ~f.readable]

\* get_file_metadata: the tags, or all empty when EasyID3 raises
GetFileMetadata(f) ==
  IF f.readable
  THEN [title |-> f.title, artist |-> f.artist, album |-> f.album, raised |-> FALSE]
  ELSE NoMetadata

\* title_match testing one direction only
TitleMatch_OneWay(item, md) == In(Lower(item.track_name), Lower(md.title))

TitleMatch(item, md) ==
  \/ In(Lower(item.track_name), Lower(md.title))
  \/ In(Lower(md.title), Lower(item.track_name))

ArtistMatch(item, md) ==
  \/ In(Lower(item.artist), Lower(md.artist))
  \/ In(Lower(md.artist), Lower(item.artist))

\* filename_match with  or  for  and
FilenameMatch_Or(item, f) ==
  \/ In(Lower(item.track_name), Lower(Stem(f.name)))
  \/ In(Lower(item.artist), Lower(Stem(f.name)))

FilenameMatch(item, f) ==
  /\ In(Lower(item.track_name), Lower(Stem(f.name)))
  /\ In(Lower(item.artist), Lower(Stem(f.name)))

\* the condition with  and  for the second  or
Matches_And(tm, am, fm) == (tm /\ am) /\ fm

\* the condition of the  if  that sets matched_file
Matches(tm, am, fm) == (tm /\ am) \/ fm

\* the title of the CSV row in every case
DisplayTitle_Expected(item, md) == item.track_name

\* metadata['title'] or item.track_name
DisplayTitle(item, md) == IF md.title # Empty THEN md.title ELSE item.track_name

\* metadata['artist'] or item.artist
DisplayArtist(item, md) == IF md.artist # Empty THEN md.artist ELSE item.artist

ExtInfLine(artist, title) == ExtInfPrefix \o artist \o Dash \o title

Absolute(f) == PlaylistDirAbs \o f.name

\* the pair written right after the header instead of at the end
WriteEntry_Prepend(doc, item, f, md) ==
  <<Head(doc)>>
  \o <<ExtInfLine(DisplayArtist(item, md), DisplayTitle(item, md)), Absolute(f)>>
  \o Tail(doc)

\* the two f.write calls of a matched item
WriteEntry(doc, item, f, md) ==
  doc \o <<ExtInfLine(DisplayArtist(item, md), DisplayTitle(item, md)), Absolute(f)>>

\* the comparison without lower()
TitleMismatch_CaseSensitive(item, md) ==
  md.title # Empty /\ md.title # item.track_name

TitleMismatch(item, md) ==
  md.title # Empty /\ Lower(md.title) # Lower(item.track_name)

ArtistMismatch(item, md) ==
  md.artist # Empty /\ Lower(md.artist) # Lower(item.artist)

Diag(kind, item, file) == [kind |-> kind, item |-> item, file |-> file]

\* the warning get_file_metadata prints when the read fails
TagReadLog(f, item, file) ==
  IF f.readable THEN << >> ELSE <<Diag("tag_read", item, file)>>

MismatchLog(item, md, n, file) ==
  (IF TitleMismatch(item, md) THEN <<Diag("title_mismatch", n, file)>> ELSE << >>)
  \o (IF ArtistMismatch(item, md) THEN <<Diag("artist_mismatch", n, file)>> ELSE << >>)

\* --------------------------------------------------------------- initial
Init ==
  /\ pc = "start"
  /\ csv_exists \in BOOLEAN
  /\ rows \in (IF csv_exists THEN SeqsUpTo(RowPool, MaxRows) ELSE {<< >>})
  /\ download \in BOOLEAN
  /\ dir_exists \in BOOLEAN
  /\ disk \in (IF dir_exists
               THEN {S \in SUBSET FilePool : Cardinality(S) <= MaxFiles}
               ELSE {{}})
  /\ spotdl = "not_run"
  /\ playlist_items = << >>
  /\ downloaded_files = << >>
  /\ i = 1
  /\ k = 1
  /\ matched_file = 0
  /\ metadata = NoMetadata
  /\ title_match = FALSE
  /\ artist_match = FALSE
  /\ filename_match = FALSE
  /\ m3u_exists = FALSE
  /\ m3u = << >>
  /\ emitted = << >>
  /\ log = << >>
  /\ raised = "none"
  /\ exit_code = -1

\* --------------------------------------------------------------- actions
\* main: the CSV file does not exist
MainCsvMissing ==
  /\ pc = "start"
  /\ ~csv_exists
  /\ pc' = "exit"
  /\ exit_code' = 1
  /\ UNCHANGED <<csv_exists, rows, download, dir_exists, disk, spotdl, playlist_items,
                 downloaded_files, i, k, matched_file, metadata, title_match,
                 artist_match, filename_match, m3u_exists, m3u, emitted, log, raised>>

\* process_playlist: read_exportify_csv
ReadExportifyCsv ==
  /\ pc = "start"
  /\ csv_exists
  /\ playlist_items' = ReadRows(rows)
  /\ pc' = "loaded"
  /\ UNCHANGED <<csv_exists, rows, download, dir_exists, disk, spotdl,
                 downloaded_files, i, k, matched_file, metadata, title_match,
                 artist_match, filename_match, m3u_exists, m3u, emitted, log, raised,
                 exit_code>>

\* download_playlist without the except clause: a missing spotdl is fatal
DownloadPlaylist_Uncaught ==
  /\ pc = "loaded"
  /\ download
  /\ \E outcome \in {"missing", "nonzero", "success"} :
       \E new \in SUBSET {f \in FilePool : IsMp3(f)} :
         /\ outcome = "missing" => new = {}
         /\ Cardinality(disk \cup new) <= MaxFiles
         /\ spotdl' = outcome
         /\ disk' = disk \cup new
         /\ IF outcome = "missing"
            THEN raised' = "FileNotFoundError" /\ pc' = "raised"
            ELSE raised' = raised /\ pc' = "acquired"
  /\ dir_exists' = TRUE
  /\ UNCHANGED <<csv_exists, rows, download, playlist_items, downloaded_files, i, k,
                 matched_file, metadata, title_match, artist_match, filename_match,
                 m3u_exists, m3u, emitted, log, exit_code>>

\* download_playlist: mkdir, run spotdl; a missing spotdl (FileNotFoundError) and a
\* nonzero exit are printed, the directory is returned in every case
DownloadPlaylist ==
  /\ pc = "loaded"
  /\ download
  /\ \E outcome \in {"missing", "nonzero", "success"} :
       \E new \in SUBSET {f \in FilePool : IsMp3(f)} :
         /\ outcome = "missing" => new = {}
         /\ Cardinality(disk \cup new) <= MaxFiles
         /\ spotdl' = outcome
         /\ disk' = disk \cup new
  /\ dir_exists' = TRUE
  /\ pc' = "acquired"
  /\ UNCHANGED <<csv_exists, rows, download, playlist_items, downloaded_files, i, k,
                 matched_file, metadata, title_match, artist_match, filename_match,
                 m3u_exists, m3u, emitted, log, raised, exit_code>>

\* process_playlist with download = False and the directory present
SkipDownload ==
  /\ pc = "loaded"
  /\ ~download
  /\ dir_exists
  /\ pc' = "acquired"
  /\ UNCHANGED <<csv_exists, rows, download, dir_exists, disk, spotdl, playlist_items,
                 downloaded_files, i, k, matched_file, metadata, title_match,
                 artist_match, filename_match, m3u_exists, m3u, emitted, log, raised,
                 exit_code>>

\* the exception process_playlist raises when the directory is absent
MissingDirError == "ValueError"

\* process_playlist without the exists() test
SkipDownloadNoDir_Unchecked ==
  /\ pc = "loaded"
  /\ ~download
  /\ ~dir_exists
  /\ pc' = "acquired"
  /\ UNCHANGED <<csv_exists, rows, download, dir_exists, disk, spotdl, playlist_items,
                 downloaded_files, i, k, matched_file, metadata, title_match,
                 artist_match, filename_match, m3u_exists, m3u, emitted, log, raised,
                 exit_code>>

\* process_playlist with download = False and the directory absent
SkipDownloadNoDir ==
  /\ pc = "loaded"
  /\ ~download
  /\ ~dir_exists
  /\ raised' = MissingDirError
  /\ pc' = "raised"
  /\ UNCHANGED <<csv_exists, rows, download, dir_exists, disk, spotdl, playlist_items,
                 downloaded_files, i, k, matched_file, metadata, title_match,
                 artist_match, filename_match, m3u_exists, m3u, emitted, log,
                 exit_code>>

\* generate_m3u_playlist up to the header: glob, open(m3u_path, 'w'), write #EXTM3U
OpenM3u ==
  /\ pc = "acquired"
  /\ downloaded_files' \in Orders({f \in disk : IsMp3(f)})
  /\ m3u_exists' = TRUE
  /\ m3u' = <<HeaderLine>>
  /\ pc' = "scan"
  /\ UNCHANGED <<csv_exists, rows, download, dir_exists, disk, spotdl, playlist_items,
                 i, k, matched_file, metadata, title_match, artist_match,
                 filename_match, emitted, log, raised, exit_code>>

\* one pass of the inner loop: read the tags of downloaded_files[k], test the item
ScanCandidate ==
  /\ pc = "scan"
  /\ i <= Len(playlist_items)
  /\ k <= Len(downloaded_files)
  /\ LET item == playlist_items[i]
         f == downloaded_files[k]
         md == GetFileMetadata(f)
         tm == TitleMatch(item, md)
         am == ArtistMatch(item, md)
         fm == FilenameMatch(item, f)
     IN IF md.raised
        THEN /\ raised' = "Exception"
             /\ pc' = "raised"
             /\ UNCHANGED <<k, matched_file, metadata, title_match, artist_match,
                            filename_match, log>>
        ELSE /\ metadata' = md
             /\ title_match' = tm
             /\ artist_match' = am
             /\ filename_match' = fm
             /\ log' = log \o TagReadLog(f, i, k)
             /\ raised' = raised
             /\ IF Matches(tm, am, fm)
                THEN matched_file' = k /\ pc' = "matched" /\ k' = k
                ELSE matched_file' = 0 /\ pc' = "scan" /\ k' = k + 1
  /\ UNCHANGED <<csv_exists, rows, download, dir_exists, disk, spotdl, playlist_items,
                 downloaded_files, i, m3u_exists, m3u, emitted, exit_code>>

\* the inner loop ended without a match: the warning of the else branch
WarnUnmatched ==
  /\ pc = "scan"
  /\ i <= Len(playlist_items)
  /\ k > Len(downloaded_files)
  /\ log' = Append(log, Diag("unmatched", i, 0))
  /\ i' = i + 1
  /\ k' = 1
  /\ UNCHANGED <<pc, csv_exists, rows, download, dir_exists, disk, spotdl,
                 playlist_items, downloaded_files, matched_file, metadata, title_match,
                 artist_match, filename_match, m3u_exists, m3u, emitted, raised,
                 exit_code>>

\* the matched file taken out of the candidate list after the pair is written
EmitEntry_Exclusive ==
  /\ pc = "matched"
  /\ LET item == playlist_items[i]
         f == downloaded_files[matched_file]
         md == GetFileMetadata(f)
     IN /\ metadata' = md
        /\ m3u' = WriteEntry(m3u, item, f, md)
        /\ emitted' = Append(emitted, [item |-> i, file |-> matched_file])
        /\ log' = log \o TagReadLog(f, i, matched_file)
                      \o MismatchLog(item, md, i, matched_file)
        /\ downloaded_files' =
             SubSeq(downloaded_files, 1, matched_file - 1)
             \o SubSeq(downloaded_files, matched_file + 1, Len(downloaded_files))
        /\ i' = i + 1
        /\ k' = 1
        /\ matched_file' = 0
        /\ pc' = "scan"
  /\ UNCHANGED <<csv_exists, rows, download, dir_exists, disk, spotdl, playlist_items,
                 title_match, artist_match, filename_match, m3u_exists, raised,
                 exit_code>>

\* the  if matched_file  branch: read the tags again, write the pair, print mismatches
EmitEntry ==
  /\ pc = "matched"
  /\ LET item == playlist_items[i]
         f == downloaded_files[matched_file]
         md == GetFileMetadata(f)
     IN IF md.raised
        THEN /\ raised' = "Exception"
             /\ pc' = "raised"
             /\ UNCHANGED <<i, k, matched_file, metadata, m3u, emitted, log>>
        ELSE /\ metadata' = md
             /\ m3u' = WriteEntry(m3u, item, f, md)
             /\ emitted' = Append(emitted, [item |-> i, file |-> matched_file])
             /\ log' = log \o TagReadLog(f, i, matched_file)
                           \o MismatchLog(item, md, i, matched_file)
             /\ i' = i + 1
             /\ k' = 1
             /\ matched_file' = 0
             /\ pc' = "scan"
             /\ raised' = raised
  /\ UNCHANGED <<csv_exists, rows, download, dir_exists, disk, spotdl, playlist_items,
                 downloaded_files, title_match, artist_match, filename_match,
                 m3u_exists, exit_code>>

\* the outer loop is over: the file is closed, process_playlist returns m3u_path
CloseM3u ==
  /\ pc = "scan"
  /\ i > Len(playlist_items)
  /\ pc' = "reconciled"
  /\ UNCHANGED <<csv_exists, rows, download, dir_exists, disk, spotdl, playlist_items,
                 downloaded_files, i, k, matched_file, metadata, title_match,
                 artist_match, filename_match, m3u_exists, m3u, emitted, log, raised,
                 exit_code>>

\* main: process_playlist returned
MainSuccess ==
  /\ pc = "reconciled"
  /\ exit_code' = 0
  /\ pc' = "exit"
  /\ UNCHANGED <<csv_exists, rows, download, dir_exists, disk, spotdl, playlist_items,
                 downloaded_files, i, k, matched_file, metadata, title_match,
                 artist_match, filename_match, m3u_exists, m3u, emitted, log, raised>>

\* main: except Exception
MainError ==
  /\ pc = "raised"
  /\ exit_code' = 1
  /\ pc' = "exit"
  /\ UNCHANGED <<csv_exists, rows, download, dir_exists, disk, spotdl, playlist_items,
                 downloaded_files, i, k, matched_file, metadata, title_match,
                 artist_match, filename_match, m3u_exists, m3u, emitted, log, raised>>

Next ==
  \/ MainCsvMissing
  \/ ReadExportifyCsv
  \/ DownloadPlaylist
  \/ SkipDownload
  \/ SkipDownloadNoDir
  \/ OpenM3u
  \/ ScanCandidate
  \/ WarnUnmatched
  \/ EmitEntry
  \/ CloseM3u
  \/ MainSuccess
  \/ MainError

Spec == Init /\ [][Next]_vars

\* ------------------------------------------------- notions the claims use
Range(q) == {q[n] : n \in 1..Len(q)}

\* the match predicate of the specification: tag-based or filename-based
TagPredicate(item, f) ==
  LET md == GetFileMetadata(f)
  IN /\ \/ In(Lower(item.track_name), Lower(md.title))
        \/ In(Lower(md.title), Lower(item.track_name))
     /\ \/ In(Lower(item.artist), Lower(md.artist))
        \/ In(Lower(md.artist), Lower(item.artist))

FilenamePredicate(item, f) ==
  /\ In(Lower(item.track_name), Lower(Stem(f.name)))
  /\ In(Lower(item.artist), Lower(Stem(f.name)))

Predicate(item, f) == TagPredicate(item, f) \/ FilenamePredicate(item, f)

Satisfying(item, files) == {n \in 1..Len(files) : Predicate(item, files[n])}

\* the items of a track list that have a satisfying candidate in files
Matchable(items, files) == {n \in 1..Len(items) : Satisfying(items[n], files) # {}}

\* the #EXTINF/path pairs written so far
Pair(a) == SubSeq(m3u, 2 * a, 2 * a + 1)

EntriesOf(n) == {a \in 1..Len(emitted) : emitted[a].item = n}

Unmatched(n) == {a \in 1..Len(log) : log[a].kind = "unmatched" /\ log[a].item = n}

TagOf(f) == IF f.readable THEN [title |-> f.title, artist |-> f.artist]
            ELSE [title |-> Empty, artist |-> Empty]

\* --------------------------------------------------------------- claims
\* C1: entries appear in the order of their tracks in the input list: the pairs
\* of the document are, in order, those of strictly increasing item positions,
\* and the track whose entry comes first is the same for every enumeration
\* order of the candidate files.
C1_OrderPreserved ==
  /\ \A a, b \in 1..Len(emitted) : a < b => emitted[a].item < emitted[b].item
  /\ m3u_exists =>
       /\ Len(m3u) = 1 + 2 * Len(emitted)
       /\ \A a \in 1..Len(emitted) :
            LET item == playlist_items[emitted[a].item]
                f == downloaded_files[emitted[a].file]
            IN Pair(a) =
                 <<ExtInfPrefix \o DisplayArtist(item, GetFileMetadata(f)) \o Dash
                     \o DisplayTitle(item, GetFileMetadata(f)),
                   PlaylistDirAbs \o f.name>>
  /\ pc = "reconciled" =>
       \A q \in Orders(Range(downloaded_files)) :
         /\ \A n \in 1..Len(playlist_items) :
              Satisfying(playlist_items[n], q) # {} <=> EntriesOf(n) # {}
         /\ emitted # << >> =>
              \A n \in 1..(emitted[1].item - 1) : Satisfying(playlist_items[n], q) = {}

\* two entries whose files were enumerated in the order opposite to their tracks
C1_Witness ==
  /\ pc = "reconciled"
  /\ Len(emitted) >= 2
  /\ emitted[1].file > emitted[2].file
  /\ Pair(1) # Pair(2)

\* C2: the document is the header line followed by exactly one pair for each
\* track that has a candidate satisfying the predicate and none for the other
\* tracks, each of which has one unmatched-track diagnostic; without candidates
\* the document is the header line alone.
C2_OnePairPerMatchedTrack ==
  pc = "reconciled" =>
    /\ m3u[1] = HeaderLine
    /\ Len(m3u) = 1 + 2 * Cardinality(Matchable(playlist_items, downloaded_files))
    /\ \A n \in 1..Len(playlist_items) :
         IF Satisfying(playlist_items[n], downloaded_files) # {}
         THEN Cardinality(EntriesOf(n)) = 1 /\ Unmatched(n) = {}
         ELSE EntriesOf(n) = {} /\ Cardinality(Unmatched(n)) = 1
    /\ downloaded_files = << >> => m3u = <<HeaderLine>>

\* a finished document with a matched track, a track matched through the file
\* name alone, and a skipped track
C2_Witness ==
  /\ pc = "reconciled"
  /\ \E n, m \in 1..Len(playlist_items) :
       /\ EntriesOf(n) # {}
       /\ EntriesOf(m) = {}
       /\ Unmatched(m) # {}
       /\ \E a \in EntriesOf(n) :
            /\ ~TagPredicate(playlist_items[n], downloaded_files[emitted[a].file])
            /\ FilenamePredicate(playlist_items[n], downloaded_files[emitted[a].file])

\* C3: the file of every entry is the first file, in the enumeration order of
\* the full candidate list, that satisfies the predicate; the list is the whole
\* listing of the directory throughout, so a file already chosen is chosen again.
C3_FirstMatchNonExclusive ==
  /\ pc \in {"scan", "matched", "reconciled"} =>
       /\ Range(downloaded_files) = {f \in disk : IsMp3(f)}
       /\ Len(downloaded_files) = Cardinality({f \in disk : IsMp3(f)})
  /\ \A a \in 1..Len(emitted) :
       /\ Predicate(playlist_items[emitted[a].item], downloaded_files[emitted[a].file])
       /\ \A n \in 1..(emitted[a].file - 1) :
            ~Predicate(playlist_items[emitted[a].item], downloaded_files[n])
       /\ Pair(a)[2] = PlaylistDirAbs \o downloaded_files[emitted[a].file].name

\* two tracks with separate entries of one path, which is not the last candidate
C3_Witness ==
  /\ pc = "reconciled"
  /\ Len(emitted) >= 2
  /\ emitted[1].file = emitted[2].file
  /\ emitted[1].item # emitted[2].item
  /\ Pair(1)[2] = Pair(2)[2]
  /\ Len(downloaded_files) >= 2
  /\ playlist_items[emitted[1].item] # playlist_items[emitted[2].item]

\* C5: the #EXTINF line of every entry carries the tag title of the file when it
\* is non-empty and the expected track name otherwise, and likewise the artist.
C5_DisplayFallback ==
  \A a \in 1..Len(emitted) :
    LET item == playlist_items[emitted[a].item]
        tag == TagOf(downloaded_files[emitted[a].file])
        title == IF tag.title # Empty THEN tag.title ELSE item.track_name
        artist == IF tag.artist # Empty THEN tag.artist ELSE item.artist
    IN Pair(a)[1] = ExtInfPrefix \o artist \o Dash \o title

\* an entry with the title of the tag and the expected artist, and an entry with
\* the expected title
C5_Witness ==
  /\ pc = "reconciled"
  /\ \E a, b \in 1..Len(emitted) :
       LET ta == TagOf(downloaded_files[emitted[a].file])
           tb == TagOf(downloaded_files[emitted[b].file])
       IN /\ ta.title # Empty /\ ta.artist = Empty
          /\ ta.title # playlist_items[emitted[a].item].track_name
          /\ tb.title = Empty

\* the states of the orchestrator
Stage ==
  CASE pc = "start" -> "None"
    [] pc = "loaded" -> "Loaded"
    [] pc \in {"acquired", "scan", "matched"} -> "Acquired"
    [] pc = "reconciled" -> "Reconciled"
    [] pc = "raised" -> "Failed"
    [] pc = "exit" -> IF exit_code = 0 THEN "Reconciled" ELSE "Failed"

TitleDiags(n) == {a \in 1..Len(log) : log[a].kind = "title_mismatch" /\ log[a].item = n}

ArtistDiags(n) == {a \in 1..Len(log) : log[a].kind = "artist_mismatch" /\ log[a].item = n}

TagReadDiags == {a \in 1..Len(log) : log[a].kind = "tag_read"}

\* C4 as stated: a candidate whose tag title and artist are both empty matches
\* a track only if the filename-based predicate holds.
C4_Original ==
  (pc = "matched" /\ metadata.title = Empty /\ metadata.artist = Empty)
    => filename_match

\* C4: a candidate whose tag title and artist are both empty satisfies the
\* tag-based predicate for every track (the empty string is a substring of every
\* string): it matches whether or not the filename-based predicate holds, and no
\* scan passes over such a candidate.
C4_EmptyTagsMatchEveryTrack ==
  /\ (pc = "matched" /\ metadata.title = Empty /\ metadata.artist = Empty)
       => (title_match /\ artist_match)
  /\ (pc \in {"scan", "matched"} /\ i <= Len(playlist_items)) =>
       \A n \in 1..(k - 1) :
         ~(TagOf(downloaded_files[n]).title = Empty
           /\ TagOf(downloaded_files[n]).artist = Empty)

\* a candidate with empty tags matched although its file name holds neither the
\* track name nor the artist
C4_Witness ==
  /\ pc = "matched"
  /\ metadata.title = Empty
  /\ metadata.artist = Empty
  /\ ~filename_match
  /\ downloaded_files[matched_file].readable

\* C6 as stated: skipping the download without the directory fails with
\* DirectoryNotFoundError, never reaches Reconciled, writes no document, exits 1.
C6_Original ==
  (csv_exists /\ ~download /\ ~dir_exists) =>
    /\ pc \in {"start", "loaded", "raised", "exit"}
    /\ ~m3u_exists /\ m3u = << >>
    /\ pc \in {"raised", "exit"} => raised = "DirectoryNotFoundError"
    /\ pc = "exit" => exit_code = 1

\* C6: skipping the download without the playlist directory fails in the step
\* Loaded -> Acquired with a ValueError: the run never reaches Acquired or
\* Reconciled, no document is created or written, and main exits with code 1.
C6_MissingDirValueError ==
  (csv_exists /\ ~download /\ ~dir_exists) =>
    /\ pc \in {"start", "loaded", "raised", "exit"}
    /\ ~m3u_exists /\ m3u = << >>
    /\ pc \in {"raised", "exit"} => raised = "ValueError"
    /\ pc = "exit" => exit_code = 1

\* the process has exited after the failure of the directory test
C6_Witness ==
  /\ csv_exists /\ ~download /\ ~dir_exists
  /\ pc = "exit"
  /\ raised = "ValueError"
  /\ exit_code = 1
  /\ playlist_items # << >>

\* progress of a run: the position of main, then the position in the two loops
PcRank ==
  CASE pc = "start" -> 0
    [] pc = "loaded" -> 1
    [] pc = "acquired" -> 2
    [] pc \in {"scan", "matched"} -> 3
    [] pc \in {"reconciled", "raised"} -> 4
    [] pc = "exit" -> 5

LoopPosition ==
  i * (2 * Len(downloaded_files) + 4) + 2 * k + (IF pc = "matched" THEN 1 ELSE 0)

\* C7: with downloading requested no outcome of spotdl is fatal: the stages are
\* visited in the order Loaded, Acquired, Reconciled only, no exception leaves
\* process_playlist, the reconciliation runs over the files that lie in the
\* directory, and the run always goes on to Reconciled: until then a step is
\* possible in every state, and every step advances the run.
C7_DownloadNeverFatal ==
  /\ [][Stage' # Stage =>
          <<Stage, Stage'>> \in {<<"None", "Loaded">>, <<"None", "Failed">>,
                                 <<"Loaded", "Acquired">>, <<"Loaded", "Failed">>,
                                 <<"Acquired", "Reconciled">>, <<"Acquired", "Failed">>}]_vars
  /\ [](download => raised = "none" /\ (csv_exists => Stage # "Failed"))
  /\ []((download /\ pc = "reconciled") =>
          /\ spotdl \in {"missing", "nonzero", "success"}
          /\ m3u_exists
          /\ Range(downloaded_files) = {f \in disk : IsMp3(f)})
  /\ []((download /\ csv_exists /\ Stage # "Reconciled") => ENABLED Next)
  /\ [][download =>
          \/ PcRank' > PcRank
          \/ PcRank' = PcRank /\ LoopPosition' > LoopPosition]_vars

\* a document with an entry was written although spotdl is not installed
C7_Witness ==
  /\ download
  /\ spotdl = "missing"
  /\ pc = "reconciled"
  /\ emitted # << >>

ScenarioDoc ==
  <<HeaderLine,
    <<"#", "E", "X", "T", "I", "N", "F", ":", "-", "1", ",", "T", "h", "e", " ",
      "B", "e", "a", "t", "l", "e", "s", " ", "-", " ", "Y", "e", "s", "t", "e", "r",
      "d", "a", "y">>,
    <<"/", "m", "/", "o", "u", "t", "/", "p", "l", "/", "B", "e", "a", "t", "l",
      "e", "s", " ", "-", " ", "Y", "e", "s", "t", "e", "r", "d", "a", "y", ".", "m",
      "p", "3">>>>

Scenario ==
  /\ playlist_items = <<RowYesterday>>
  /\ downloaded_files = <<FileBeatlesYesterday>>
  /\ pc = "reconciled"

\* C8 as stated: in the scenario the filename match fires and the document holds
\* the one entry.
C8_Original == Scenario => (filename_match /\ m3u = ScenarioDoc)

\* C8: in the scenario the filename match does not fire ("the beatles" is no
\* substring of "beatles - yesterday"); the candidate matches through the tag
\* comparison of its empty tags, and the document holds exactly the one entry
\* "#EXTINF:-1,The Beatles - Yesterday" followed by the absolute path.
C8_ScenarioTagMatch ==
  Scenario => (~filename_match /\ title_match /\ artist_match /\ m3u = ScenarioDoc)

\* the scenario has run to the end with its one entry
C8_Witness == Scenario /\ Len(emitted) = 1 /\ Len(m3u) = Len(ScenarioDoc)

\* C9 as stated: after a tag-read failure the candidate is evaluated with empty
\* tags, nothing is propagated, and unless its file name matches the scan goes
\* on with the remaining candidates of the track.
C9_Original ==
  [][(/\ ScanCandidate
      /\ ~downloaded_files[k].readable
      /\ k < Len(downloaded_files)
      /\ ~FilenamePredicate(playlist_items[i], downloaded_files[k]))
     => (/\ raised' = "none"
         /\ metadata' = NoMetadata
         /\ pc' = "scan" /\ i' = i /\ k' = k + 1)]_vars

\* C9: a tag-read failure is never propagated: the candidate is evaluated with
\* title, artist and album empty and, its empty tags satisfying the tag
\* comparison, is selected for the track, so that no scan passes over an
\* unreadable candidate; the processing is never aborted: every expected track
\* has its entry or its unmatched-track diagnostic when the document is complete.
C9_TagReadFailureContained ==
  /\ raised # "Exception"
  /\ (pc = "matched" /\ ~downloaded_files[matched_file].readable) =>
       (metadata = NoMetadata /\ title_match /\ artist_match)
  /\ (pc \in {"scan", "matched"} /\ i <= Len(playlist_items)) =>
       \A n \in 1..(k - 1) : downloaded_files[n].readable
  /\ (\E n \in 1..Len(downloaded_files) : ~downloaded_files[n].readable) =>
       /\ pc \notin {"raised"}
       /\ pc = "reconciled" =>
            \A n \in 1..Len(playlist_items) :
              Cardinality(EntriesOf(n)) + Cardinality(Unmatched(n)) = 1

\* a complete document after read failures on a candidate that is not the last
C9_Witness ==
  /\ pc = "reconciled"
  /\ TagReadDiags # {}
  /\ Len(playlist_items) >= 2
  /\ Len(downloaded_files) >= 2
  /\ \E a \in 1..Len(emitted) :
       /\ ~downloaded_files[emitted[a].file].readable
       /\ emitted[a].file < Len(downloaded_files)

\* C10 as stated: a title (artist) diagnostic is emitted whenever the tag title
\* (artist) differs, compared case-insensitively, from the expected one.
C10_Original ==
  \A a \in 1..Len(emitted) :
    LET n == emitted[a].item
        tag == TagOf(downloaded_files[emitted[a].file])
    IN /\ Lower(tag.title) # Lower(playlist_items[n].track_name) => TitleDiags(n) # {}
       /\ Lower(tag.artist) # Lower(playlist_items[n].artist) => ArtistDiags(n) # {}

\* C10: a title (artist) diagnostic is emitted for a matched pair exactly when
\* the tag title (artist) is non-empty and differs, compared case-insensitively,
\* from the expected one; the entry is written all the same, with the tag value.
C10_MismatchDiagnostics ==
  \A a \in 1..Len(emitted) :
    LET n == emitted[a].item
        tag == TagOf(downloaded_files[emitted[a].file])
    IN /\ TitleDiags(n) # {} <=>
            (tag.title # Empty /\ Lower(tag.title) # Lower(playlist_items[n].track_name))
       /\ ArtistDiags(n) # {} <=>
            (tag.artist # Empty /\ Lower(tag.artist) # Lower(playlist_items[n].artist))
       /\ TitleDiags(n) # {} =>
            Pair(a)[1] = ExtInfPrefix \o DisplayArtist(playlist_items[n], tag) \o Dash
                            \o tag.title
       /\ ArtistDiags(n) # {} =>
            Pair(a)[1] = ExtInfPrefix \o tag.artist \o Dash
                            \o DisplayTitle(playlist_items[n], tag)

\* an entry with a title diagnostic, and an entry whose tag title differs from
\* the expected one in case only and has no title diagnostic
C10_Witness ==
  /\ pc = "reconciled"
  /\ \E a, b \in 1..Len(emitted) :
       LET ta == TagOf(downloaded_files[emitted[a].file])
           tb == TagOf(downloaded_files[emitted[b].file])
       IN /\ TitleDiags(emitted[a].item) # {}
          /\ tb.title # playlist_items[emitted[b].item].track_name
          /\ Lower(tb.title) = Lower(playlist_items[emitted[b].item].track_name)
          /\ TitleDiags(emitted[b].item) = {}
          /\ ArtistDiags(emitted[b].item) # {}

====
